---- MODULE Spec2Model ----
(***************************************************************************)
(* VecRng<T> (src/src/lib.rs): a growable double-ended ring buffer over    *)
(* one allocation.  The state is the three fields of the struct; the       *)
(* operations are reserve/grow, the two unchecked commit calls             *)
(* (back_init_change, head_init_change) together with the caller's bulk    *)
(* transfer through the views, and Drop.  usize/isize are modelled with    *)
(* UsizeBits bits so that the casts and the signed remainder of            *)
(* head_init_change behave as in the code.                                 *)
(***************************************************************************)
EXTENDS Integers, Sequences, FiniteSets, TLC

(* ------------------------------ bounds -------------------------------- *)
UsizeBits == 5          \* width of usize/isize in the model
MaxCap == 8             \* largest capacity the model allocates
MaxVals == 3            \* number of values the caller ever constructs
MaxInitCap == 3         \* largest argument of with_capacity
MaxAdd == 3             \* largest ordinary argument of reserve
MaxScenarioVals == 6    \* values constructed in the longer runs (ScenarioSpec)
MaxLayoutVals == 2      \* values constructed on top of an arbitrary layout (LayoutSpec)
MaxDriverBytes == 10    \* bytes the source delivers to the driver before end of file
DriverCap == 8          \* the driver's with_capacity(4096), scaled down

(* --------------------------- machine integers ------------------------- *)
RECURSIVE Pow2(_)
Pow2(b) == IF b = 0 THEN 1 ELSE 2 * Pow2(b - 1)

USIZE == Pow2(UsizeBits)            \* usize::MAX + 1
ISIZE_MAX == Pow2(UsizeBits - 1) - 1

AsUsize(i) == i % USIZE                                  \* `as usize`
AsIsize(u) == IF u % USIZE > ISIZE_MAX THEN (u % USIZE) - USIZE ELSE u % USIZE
WSub(a, b) == (a - b) % USIZE                            \* wrapping a - b
WAdd(a, b) == (a + b) % USIZE                            \* wrapping a + b
Max(a, b) == IF a >= b THEN a ELSE b
\* Rust's `%` on isize: truncated remainder, sign of the dividend (d > 0)
Rem(a, d) == IF a >= 0 THEN a % d ELSE 0 - ((0 - a) % d)

(* ------------------------------ slots --------------------------------- *)
Uninit == 0             \* a MaybeUninit<T> slot holding no constructed value
Wild == 0 - 1           \* what a read outside the allocation yields
ValueIds == 1..(MaxCap + MaxScenarioVals)     \* the values a run can construct
ElemSizes == {1, 8, 2048}           \* size_of::<T>() of the element types modelled

MINCAP(sz) == IF sz = 1 THEN 8 ELSE IF sz <= 1024 THEN 4 ELSE 1

VARIABLES
    buffer,     \* Box<[MaybeUninit<T>]>: sequence of slots, Len(buffer) = capacity
    hindex,     \* usize
    length,     \* usize
    siz,        \* size_of::<T>()
    checked,    \* TRUE: built with overflow checks (debug), FALSE: wrapping (release)
    status,     \* "live", "dropped" (Drop ran), "aborted" (panic / crash)
    nextv,      \* next value the caller constructs (values are 1, 2, 3, ...)
    vlimit,     \* how many values the caller constructs in this run
    dcount,     \* value -> number of times it was destructed (saturates at 2)
    baddrop,    \* TRUE once something that is no constructed value was destructed
    tainted,    \* TRUE once a call left the fields outside the bookkeeping invariant
    twin,       \* <<>>, or <<s>>: a second VecRng given the same calls except reserve
    last,       \* the last call made on the buffer: its name and argument
    drv         \* the pipeline driver (example0.rs): its position, locals and sink

vars == <<buffer, hindex, length, siz, checked, status, nextv, vlimit,
          dcount, baddrop, tainted, twin, last, drv>>

Cap(buf) == Len(buf)
St(buf, h, l) == [buffer |-> buf, hindex |-> h, length |-> l]
Cur == St(buffer, hindex, length)

\* the bookkeeping invariant of the data model
Valid(s) ==
    /\ s.length <= Cap(s.buffer)
    /\ \/ s.hindex < Cap(s.buffer)
       \/ (Cap(s.buffer) = 0 /\ s.length = 0)

(* ------------------------------ lens() -------------------------------- *)
\* `self.buffer.len() - self.hindex` overflows when hindex > capacity
LensOverflows(s) == s.hindex > Cap(s.buffer)

\* a split that forgets the wrap (mutation of lens)
lens_never_wraps(s) == <<s.length, 0>>

lens(s) ==
    LET hcp == WSub(Cap(s.buffer), s.hindex)
    IN  IF hcp < s.length THEN <<hcp, s.length - hcp>> ELSE <<s.length, 0>>

(* ------------------------------ views --------------------------------- *)
\* A view is the sequence of slot indices (relative to the start of the
\* allocation, modulo the address space) that the slice covers.
Slice(start, len) == [j \in 1..len |-> WAdd(start, j - 1)]

\* occupied views handed out in storage order, back run first (mutation of as_ref)
as_ref_back_run_first(s) ==
    LET l == lens(s) IN <<Slice(0, l[2]), Slice(s.hindex, l[1])>>

as_ref(s) ==
    LET l == lens(s) IN <<Slice(s.hindex, l[1]), Slice(0, l[2])>>

\* a head gap that starts at slot 0 (mutation of spare_capacity_mut)
spare_capacity_mut_from_zero(s) ==
    LET l == lens(s)
        cap == Cap(s.buffer)
        a == WAdd(s.hindex, l[1])
    IN  <<Slice(a, WSub(cap, a)), Slice(0, WSub(s.hindex, l[2]))>>

\* a back gap measured from the front instead of from the end of the head
\* run (mutation of spare_capacity_mut)
spare_capacity_mut_tail_from_front(s) ==
    LET l == lens(s)
        cap == Cap(s.buffer)
        a == WAdd(s.hindex, l[1])
    IN  <<Slice(a, WSub(cap, s.hindex)), Slice(l[2], WSub(s.hindex, l[2]))>>

spare_capacity_mut(s) ==
    LET l == lens(s)
        cap == Cap(s.buffer)
        a == WAdd(s.hindex, l[1])
    IN  <<Slice(a, WSub(cap, a)), Slice(l[2], WSub(s.hindex, l[2]))>>

Occupied(s) == as_ref(s)[1] \o as_ref(s)[2]                   \* head run, then back run
Free(s) == spare_capacity_mut(s)[1] \o spare_capacity_mut(s)[2]

InBounds(buf, i) == i < Cap(buf)
ReadSlot(buf, i) == IF InBounds(buf, i) THEN buf[i + 1] ELSE Wild
ReadView(buf, v) == [j \in 1..Len(v) |-> ReadSlot(buf, v[j])]

\* the logical sequence: what the occupied views read, head then back
Logical(s) == ReadView(s.buffer, Occupied(s))

(* ------------------------------ grow ---------------------------------- *)
\* a relocation that copies the back run to offset 0 and the head run after
\* it (mutation of grow)
grow_back_run_first(s, to_c) ==
    LET l == lens(s)
        hln == l[1]
        bln == l[2]
        src == s.buffer
        newbuf == [i \in 1..to_c |->
                     IF i <= bln THEN ReadSlot(src, i - 1)
                     ELSE IF i <= bln + hln THEN ReadSlot(src, WAdd(s.hindex, i - 1 - bln))
                     ELSE Uninit]
    IN  [buffer |-> newbuf, hindex |-> 0, length |-> s.length]

grow(s, to_c) ==
    LET l == lens(s)
        hln == l[1]
        bln == l[2]
        src == s.buffer
        newbuf == [i \in 1..to_c |->
                     IF i <= hln THEN ReadSlot(src, WAdd(s.hindex, i - 1))
                     ELSE IF i <= hln + bln THEN ReadSlot(src, i - 1 - hln)
                     ELSE Uninit]
    IN  [buffer |-> newbuf, hindex |-> 0, length |-> s.length]

(* ----------------------- new / with_capacity -------------------------- *)
new == St(<<>>, 0, 0)
with_capacity(sz, c) == grow(new, Max(MINCAP(sz), c))

\* the driver before its loop: no view taken, nothing read, nothing written
DriverStart == [pc |-> "views", h |-> <<>>, b |-> <<>>, n |-> 0, sink |-> <<>>]

Constructed(sz, s, lim, tw) ==
    /\ siz = sz
    /\ checked \in BOOLEAN
    /\ Cap(s.buffer) <= MaxCap
    /\ buffer = s.buffer /\ hindex = s.hindex /\ length = s.length
    /\ status = "live"
    /\ nextv = s.length + 1
    /\ vlimit = s.length + lim
    /\ dcount = [v \in ValueIds |-> 0]
    /\ baddrop = FALSE
    /\ tainted = FALSE
    /\ twin = (IF tw THEN <<s>> ELSE <<>>)
    /\ last = [op |-> "init", n |-> 0]
    /\ drv = DriverStart

Init ==
    \E sz \in ElemSizes : \E s \in {new} \cup {with_capacity(sz, c) : c \in 0..MaxInitCap} :
        Constructed(sz, s, MaxVals, FALSE)

\* a failure that strikes after the front was already reset (mutation of Abort)
Abort_after_reset(op, n) ==
    /\ status' = "aborted"
    /\ hindex' = 0
    /\ last' = [op |-> op, n |-> n]
    /\ UNCHANGED <<buffer, length, siz, checked, nextv, vlimit,
                   dcount, baddrop, tainted, twin, drv>>

Abort(op, n) ==
    /\ status' = "aborted"
    /\ last' = [op |-> op, n |-> n]
    /\ UNCHANGED <<buffer, hindex, length, siz, checked, nextv, vlimit,
                   dcount, baddrop, tainted, twin, drv>>

\* the fields after a call that returned
Install(s) ==
    /\ buffer' = s.buffer /\ hindex' = s.hindex /\ length' = s.length
    /\ tainted' = (tainted \/ ~Valid(s))

(* ------------------- the caller's bulk transfers ---------------------- *)
Touches(buf, idxs) == \E j \in DOMAIN idxs : ~InBounds(buf, idxs[j])

\* write vals[j] through the view into slot idxs[j]; a write outside the
\* allocation lands in foreign memory and leaves the buffer as it is
WriteView(buf, idxs, vals) ==
    [i \in 1..Len(buf) |->
        IF \E j \in DOMAIN idxs : idxs[j] = i - 1
        THEN vals[CHOOSE j \in DOMAIN idxs :
                    idxs[j] = i - 1 /\ \A k \in DOMAIN idxs : idxs[k] = i - 1 => k <= j]
        ELSE buf[i]]

\* drop_in_place on every slot of the view: the slots hold no value afterwards
ClearView(buf, idxs) ==
    [i \in 1..Len(buf) |-> IF \E j \in DOMAIN idxs : idxs[j] = i - 1 THEN Uninit ELSE buf[i]]

(* ------------------------------ reserve ------------------------------- *)
\* a target that forgets the requested room (mutation of ReserveTarget)
ReserveTarget_doubling_only(s, sz, addc) == Max(MINCAP(sz), 2 * Cap(s.buffer))

\* a target that forgets the live elements (mutation of ReserveTarget)
ReserveTarget_additional_only(s, sz, addc) == addc

ReserveTarget(s, sz, addc) == Max(Max(MINCAP(sz), addc + s.length), 2 * Cap(s.buffer))
ReserveReturnsEarly(s, addc) == addc + s.length < Cap(s.buffer)
ReserveArgs == (0..MaxAdd) \cup {USIZE - 1}

Reserve(addc) ==
    /\ status = "live"
    /\ IF addc + length >= USIZE
       THEN Abort("reserve", addc)                      \* checked_add(..).unwrap()
       ELSE IF ReserveReturnsEarly(Cur, addc)
       THEN /\ last' = [op |-> "reserve", n |-> addc]
            /\ UNCHANGED <<buffer, hindex, length, siz, checked, status, nextv,
                           vlimit, dcount, baddrop, tainted, twin, drv>>
       ELSE LET to_c == ReserveTarget(Cur, siz, addc) IN
            IF to_c > ISIZE_MAX \/ (checked /\ LensOverflows(Cur))
            THEN Abort("reserve", addc)                 \* grow panics
            ELSE /\ to_c <= MaxCap
                 /\ \/ /\ Touches(buffer, Occupied(Cur))
                       /\ Abort("reserve", addc)        \* the stray copy faults
                    \/ /\ Install(grow(Cur, to_c))
                       /\ last' = [op |-> "reserve", n |-> addc]
                       /\ UNCHANGED <<siz, checked, status, nextv, vlimit, dcount,
                                      baddrop, twin, drv>>

(* ----------------------- destruction accounting ------------------------ *)
IsValue(x) == x \in ValueIds
Sat2(x) == IF x > 2 THEN 2 ELSE x
DropCounts(buf, idxs) ==
    [v \in ValueIds |->
        Sat2(dcount[v] + Cardinality({j \in DOMAIN idxs : ReadSlot(buf, idxs[j]) = v}))]
DropsGarbage(buf, idxs) == \E j \in DOMAIN idxs : ~IsValue(ReadSlot(buf, idxs[j]))

NewVals(n) == [j \in 1..n |-> nextv + j - 1]
FirstN(v, n) == SubSeq(v, 1, n)
LastN(v, n) == SubSeq(v, Len(v) - n + 1, Len(v))

(* ------------------ back_init_change / head_init_change --------------- *)
\* a commit at the back that also moves the front (mutation of back_init_change)
back_init_change_moves_front(s, n) ==
    [s EXCEPT !.length = AsUsize(AsIsize(s.length) + n),
              !.hindex = AsUsize(AsIsize(s.hindex) + n)]

back_init_change(s, n) ==
    [s EXCEPT !.length = AsUsize(AsIsize(s.length) + n)]

\* the front moved the wrong way (mutation of head_init_change)
head_init_change_forward(s, n) ==
    back_init_change(
        [s EXCEPT !.hindex = AsUsize(Rem(AsIsize(s.hindex) + n, AsIsize(Cap(s.buffer))))],
        n)

\* a front commit that moves the front and forgets the length (mutation of
\* head_init_change)
head_init_change_front_only(s, n) ==
    [s EXCEPT !.hindex = AsUsize(Rem(AsIsize(s.hindex) - n, AsIsize(Cap(s.buffer))))]

\* (hindex as isize - n stays inside isize for the capacities modelled)
head_init_change(s, n) ==
    back_init_change(
        [s EXCEPT !.hindex = AsUsize(Rem(AsIsize(s.hindex) - n, AsIsize(Cap(s.buffer))))],
        n)

\* the SAFETY contract of both calls: 0 <= length + n <= buffer.len()
CommitPre(s, n) == 0 <= s.length + n /\ s.length + n <= Cap(s.buffer)

\* the four transfers as functions of the struct: the caller's writes or
\* destructions through the views, then the commit call
push_back(s, n, vals) ==
    back_init_change([s EXCEPT !.buffer = WriteView(s.buffer, FirstN(Free(s), n), vals)], n)
pop_back(s, n) ==
    back_init_change([s EXCEPT !.buffer = ClearView(s.buffer, LastN(Occupied(s), n))], 0 - n)
push_front(s, n, vals) ==
    head_init_change([s EXCEPT !.buffer = WriteView(s.buffer, LastN(Free(s), n), vals)], n)
pop_front(s, n) ==
    head_init_change([s EXCEPT !.buffer = ClearView(s.buffer, FirstN(Occupied(s), n))], 0 - n)

\* the twin receives the same call when it is within the twin's precondition too
TwinCanPush(n) ==
    twin # <<>> => (CommitPre(twin[1], n) /\ Cap(twin[1].buffer) > 0
                    /\ n <= Len(Free(twin[1])))
TwinCanPop(n) ==
    twin # <<>> => (CommitPre(twin[1], 0 - n) /\ Cap(twin[1].buffer) > 0
                    /\ n <= Len(Occupied(twin[1])))

\* append: fill the first n free slots (first free view, then the second),
\* then back_init_change(n)
PushBack(n) ==
    /\ status = "live"
    /\ CommitPre(Cur, n)
    /\ nextv + n - 1 <= vlimit
    /\ TwinCanPush(n)
    /\ IF n > 0 /\ checked /\ LensOverflows(Cur)
       THEN Abort("append", n)                           \* spare_capacity_mut panics
       ELSE /\ n <= Len(Free(Cur))
            /\ \/ /\ Touches(buffer, FirstN(Free(Cur), n))
                  /\ Abort("append", n)                  \* the stray write faults
               \/ /\ Install(push_back(Cur, n, NewVals(n)))
                  /\ twin' = (IF twin = <<>> THEN <<>>
                               ELSE <<push_back(twin[1], n, NewVals(n))>>)
                  /\ nextv' = nextv + n
                  /\ last' = [op |-> "append", n |-> n]
                  /\ UNCHANGED <<siz, checked, status, vlimit, dcount, baddrop, drv>>

\* pop-back: destruct the last n live slots, then back_init_change(-n)
PopBack(n) ==
    /\ status = "live"
    /\ n > 0
    /\ CommitPre(Cur, 0 - n)
    /\ TwinCanPop(n)
    /\ IF checked /\ LensOverflows(Cur)
       THEN Abort("popback", 0 - n)                      \* as_mut panics
       ELSE /\ n <= Len(Occupied(Cur))
            /\ LET idxs == LastN(Occupied(Cur), n)
               IN  \/ /\ Touches(buffer, idxs)
                      /\ Abort("popback", 0 - n)
                   \/ /\ Install(pop_back(Cur, n))
                      /\ twin' = (IF twin = <<>> THEN <<>> ELSE <<pop_back(twin[1], n)>>)
                      /\ dcount' = DropCounts(buffer, idxs)
                      /\ baddrop' = (baddrop \/ DropsGarbage(buffer, idxs))
                      /\ last' = [op |-> "popback", n |-> 0 - n]
                      /\ UNCHANGED <<siz, checked, status, nextv, vlimit, drv>>

\* prepend: fill the n free slots immediately before the front (the last n
\* slots of the free views), then head_init_change(n)
PushFront(n) ==
    /\ status = "live"
    /\ CommitPre(Cur, n)
    /\ nextv + n - 1 <= vlimit
    /\ TwinCanPush(n)
    /\ IF Cap(buffer) = 0 \/ (n > 0 /\ checked /\ LensOverflows(Cur))
       THEN Abort("prepend", n)                          \* `% 0`, or the view panics
       ELSE /\ n <= Len(Free(Cur))
            /\ \/ /\ Touches(buffer, LastN(Free(Cur), n))
                  /\ Abort("prepend", n)
               \/ /\ Install(push_front(Cur, n, NewVals(n)))
                  /\ twin' = (IF twin = <<>> THEN <<>>
                               ELSE <<push_front(twin[1], n, NewVals(n))>>)
                  /\ nextv' = nextv + n
                  /\ last' = [op |-> "prepend", n |-> n]
                  /\ UNCHANGED <<siz, checked, status, vlimit, dcount, baddrop, drv>>

\* pop-front: destruct the first n live slots, then head_init_change(-n)
PopFront(n) ==
    /\ status = "live"
    /\ n > 0
    /\ CommitPre(Cur, 0 - n)
    /\ TwinCanPop(n)
    /\ IF checked /\ LensOverflows(Cur)
       THEN Abort("popfront", 0 - n)                     \* as_mut panics
       ELSE /\ n <= Len(Occupied(Cur))
            /\ LET idxs == FirstN(Occupied(Cur), n)
               IN  \/ /\ Touches(buffer, idxs)
                      /\ Abort("popfront", 0 - n)
                   \/ /\ Install(pop_front(Cur, n))
                      /\ twin' = (IF twin = <<>> THEN <<>> ELSE <<pop_front(twin[1], n)>>)
                      /\ dcount' = DropCounts(buffer, idxs)
                      /\ baddrop' = (baddrop \/ DropsGarbage(buffer, idxs))
                      /\ last' = [op |-> "popfront", n |-> 0 - n]
                      /\ UNCHANGED <<siz, checked, status, nextv, vlimit, drv>>

(* ------------------------------- Drop --------------------------------- *)
Drop ==
    /\ status = "live"
    /\ IF checked /\ LensOverflows(Cur)
       THEN Abort("drop", 0)                             \* as_mut panics inside drop
       ELSE \/ /\ Touches(buffer, Occupied(Cur))
               /\ Abort("drop", 0)
            \/ /\ status' = "dropped"
               /\ dcount' = DropCounts(buffer, Occupied(Cur))
               /\ baddrop' = (baddrop \/ DropsGarbage(buffer, Occupied(Cur)))
               /\ last' = [op |-> "drop", n |-> 0]
               /\ UNCHANGED <<buffer, hindex, length, siz, checked, nextv, vlimit,
                              tainted, twin, drv>>

Next ==
    \/ \E addc \in ReserveArgs : Reserve(addc)
    \/ \E n \in 0..MaxCap : PushBack(n)
    \/ \E n \in 1..MaxCap : PopBack(n)
    \/ \E n \in 0..MaxCap : PushFront(n)
    \/ \E n \in 1..MaxCap : PopFront(n)
    \/ Drop

Spec == Init /\ [][Next]_vars

\* the same buffer next to a twin that starts equal and is never reserved on
TwinInit ==
    \E sz \in ElemSizes : \E c \in 0..MaxInitCap :
        Constructed(sz, with_capacity(sz, c), MaxVals, TRUE)

TwinSpec == TwinInit /\ [][Next]_vars

\* buffers built by with_capacity(0..4) and used without prepends (append,
\* pop at either end, reserve), for longer runs
ScenarioInit ==
    \E sz \in ElemSizes : \E c \in 0..4 :
        Constructed(sz, with_capacity(sz, c), MaxScenarioVals, FALSE)

QueueNext ==
    \/ \E addc \in ReserveArgs : Reserve(addc)
    \/ \E n \in 0..MaxCap : PushBack(n)
    \/ \E n \in 1..MaxCap : PopBack(n)
    \/ \E n \in 1..MaxCap : PopFront(n)
    \/ Drop

ScenarioSpec == ScenarioInit /\ [][QueueNext]_vars

\* every buffer the data model allows: any capacity the element type can
\* have, any front, any length, the values 1..length in logical order
LayoutOf(c, h, l) ==
    St([i \in 1..c |-> IF ((i - 1) - h) % c < l THEN (((i - 1) - h) % c) + 1 ELSE Uninit], h, l)

LayoutInit ==
    \E sz \in ElemSizes :
        \/ Constructed(sz, new, MaxLayoutVals, FALSE)
        \/ \E c \in MINCAP(sz)..MaxCap : \E h \in 0..(c - 1) : \E l \in 0..c :
              Constructed(sz, LayoutOf(c, h, l), MaxLayoutVals, FALSE)

\* pops lead from one such layout to another one, so only the other calls are taken
LayoutNext ==
    \/ \E addc \in ReserveArgs : Reserve(addc)
    \/ \E n \in 0..MaxCap : PushBack(n)
    \/ \E n \in 0..MaxCap : PushFront(n)
    \/ Drop

LayoutSpec == LayoutInit /\ [][LayoutNext]_vars

(* ------------------ the pipeline driver (example0.rs) ----------------- *)
\* The source delivers the bytes 1, 2, 3, ... (nextv is the next one, vlimit
\* the last one before end of file); drv.sink is what the sink received.

\* BufMut::advance_mut on `&mut [MaybeUninit<u8>]`: read_buf leaves the
\* span it was given as the part that was not filled
Advance(v, n) == SubSeq(v, n + 1, Len(v))

DriverInit ==
    Constructed(1, with_capacity(1, DriverCap), MaxDriverBytes, FALSE)

\* let (mut h, mut b) = sinbuf.spare_capacity_mut();
TakeFreeViews ==
    /\ status = "live" /\ drv.pc = "views"
    /\ IF checked /\ LensOverflows(Cur)
       THEN Abort("spare_capacity_mut", 0)
       ELSE /\ drv' = [drv EXCEPT !.pc = "read_h", !.n = 0,
                                  !.h = spare_capacity_mut(Cur)[1],
                                  !.b = spare_capacity_mut(Cur)[2]]
            /\ UNCHANGED <<buffer, hindex, length, siz, checked, status, nextv, vlimit,
                           dcount, baddrop, tainted, twin, last>>

\* let mut n_read = i.read_buf(&mut h).await.unwrap(); if n_read == h.len() ..
ReadHead(n) ==
    /\ status = "live" /\ drv.pc = "read_h"
    /\ n <= Len(drv.h)
    /\ nextv + n - 1 <= vlimit
    /\ buffer' = WriteView(buffer, FirstN(drv.h, n), NewVals(n))
    /\ nextv' = nextv + n
    /\ drv' = [drv EXCEPT !.h = Advance(drv.h, n), !.n = n,
                          !.pc = IF n = Len(Advance(drv.h, n)) THEN "read_b"
                                 ELSE "commit_back"]
    /\ UNCHANGED <<hindex, length, siz, checked, status, vlimit,
                   dcount, baddrop, tainted, twin, last>>

\* n_read += i.read_buf(&mut b).await.unwrap();
ReadBack(n) ==
    /\ status = "live" /\ drv.pc = "read_b"
    /\ n <= Len(drv.b)
    /\ nextv + n - 1 <= vlimit
    /\ buffer' = WriteView(buffer, FirstN(drv.b, n), NewVals(n))
    /\ nextv' = nextv + n
    /\ drv' = [drv EXCEPT !.b = Advance(drv.b, n), !.n = drv.n + n,
                          !.pc = "commit_back"]
    /\ UNCHANGED <<hindex, length, siz, checked, status, vlimit,
                   dcount, baddrop, tainted, twin, last>>

\* sinbuf.back_init_change(n_read as isize); let (h, b) = sinbuf.as_ref();
CommitBack ==
    /\ status = "live" /\ drv.pc = "commit_back"
    /\ LET s == back_init_change(Cur, drv.n) IN
       IF checked /\ LensOverflows(s)
       THEN Abort("append", drv.n)
       ELSE /\ Install(s)
            /\ last' = [op |-> "append", n |-> drv.n]
            /\ drv' = [drv EXCEPT !.pc = "write_h", !.n = 0,
                                  !.h = as_ref(s)[1], !.b = as_ref(s)[2]]
            /\ UNCHANGED <<siz, checked, status, nextv, vlimit, dcount, baddrop, twin>>

\* let mut nwritten = o.write(h).await.unwrap(); if nwritten == h.len() ..
WriteHead(n) ==
    /\ status = "live" /\ drv.pc = "write_h"
    /\ n <= Len(drv.h)
    /\ drv' = [drv EXCEPT !.sink = drv.sink \o ReadView(buffer, FirstN(drv.h, n)),
                          !.n = n,
                          !.pc = IF n = Len(drv.h) THEN "write_b" ELSE "commit_front"]
    /\ UNCHANGED <<buffer, hindex, length, siz, checked, status, nextv, vlimit,
                   dcount, baddrop, tainted, twin, last>>

\* nwritten += o.write(b).await.unwrap();
WriteBack(n) ==
    /\ status = "live" /\ drv.pc = "write_b"
    /\ n <= Len(drv.b)
    /\ drv' = [drv EXCEPT !.sink = drv.sink \o ReadView(buffer, FirstN(drv.b, n)),
                          !.n = drv.n + n,
                          !.pc = "commit_front"]
    /\ UNCHANGED <<buffer, hindex, length, siz, checked, status, nextv, vlimit,
                   dcount, baddrop, tainted, twin, last>>

\* sinbuf.head_init_change(-(nwritten as isize)); the bytes given to the
\* sink (the first nwritten slots of h, then b) are forgotten, their slots
\* hold nothing any more
CommitFront ==
    /\ status = "live" /\ drv.pc = "commit_front"
    /\ IF Cap(buffer) = 0
       THEN Abort("popfront", 0 - drv.n)
       ELSE /\ buffer' = ClearView(buffer, FirstN(drv.h \o drv.b, drv.n))
            /\ hindex' = head_init_change(Cur, 0 - drv.n).hindex
            /\ length' = head_init_change(Cur, 0 - drv.n).length
            /\ tainted' = (tainted \/ ~Valid(head_init_change(Cur, 0 - drv.n)))
            /\ last' = [op |-> "popfront", n |-> 0 - drv.n]
            /\ drv' = [drv EXCEPT !.pc = "views", !.n = 0, !.h = <<>>, !.b = <<>>]
            /\ UNCHANGED <<siz, checked, status, nextv, vlimit, dcount, baddrop, twin>>

DriverNext ==
    \/ TakeFreeViews
    \/ \E n \in 0..MaxCap : ReadHead(n)
    \/ \E n \in 0..MaxCap : ReadBack(n)
    \/ CommitBack
    \/ \E n \in 0..MaxCap : WriteHead(n)
    \/ \E n \in 0..MaxCap : WriteBack(n)
    \/ CommitFront

DriverSpec == DriverInit /\ [][DriverNext]_vars

\* The driver with the environment assumed for progress: a write on a
\* non-empty span writes at least one byte, no I/O call fails, and every
\* call the loop makes returns (weak fairness of the loop's steps).
DriverLiveNext ==
    \/ TakeFreeViews
    \/ \E n \in 0..MaxCap : ReadHead(n)
    \/ \E n \in 0..MaxCap : ReadBack(n)
    \/ CommitBack
    \/ \E n \in 0..MaxCap : (n >= 1 \/ Len(drv.h) = 0) /\ WriteHead(n)
    \/ \E n \in 0..MaxCap : (n >= 1 \/ Len(drv.b) = 0) /\ WriteBack(n)
    \/ CommitFront

DriverLiveSpec == DriverInit /\ [][DriverLiveNext]_vars /\ WF_vars(DriverLiveNext)

(* ======================= properties of the buffer ===================== *)
CurP == St(buffer', hindex', length')       \* the fields after the step
Abs(n) == IF n >= 0 THEN n ELSE 0 - n
ChangedSlots == {i \in 1..Len(buffer) : i > Len(buffer') \/ buffer'[i] # buffer[i]}

\* C1: after every call of a precondition-respecting call sequence the
\* bookkeeping invariant holds: length <= capacity, and hindex < capacity
\* or capacity = 0 and length = 0.
C1_BookkeepingInvariant == Valid(Cur)

\* C2: commit_front(n), n >= 0, length + n <= C, called on a buffer that
\* satisfies the bookkeeping invariant, sets front to (front - n) mod C, a
\* value in [0, C), and increases length by n.
C2_PrependMovesFrontBack ==
    [][(last'.op = "prepend" /\ Valid(Cur) /\ Cap(buffer) > 0)
        => /\ status' = "live"
           /\ hindex' = (hindex - last'.n) % Cap(buffer)
           /\ hindex' < Cap(buffer)
           /\ length' = length + last'.n]_vars

\* C3: commit_front(n), n < 0, |n| <= length, called on a buffer that
\* satisfies the bookkeeping invariant, sets front to (front + |n|) mod C,
\* decreases length by |n|, leaves the capacity and every remaining live
\* slot as they were, and the occupied views then read the previous logical
\* sequence without its first |n| elements.
C3_PopFront ==
    [][(last'.op = "popfront" /\ Valid(Cur))
        => LET m == Abs(last'.n) IN
           /\ status' = "live"
           /\ hindex' = (hindex + m) % Cap(buffer)
           /\ length' = length - m
           /\ Cap(buffer') = Cap(buffer)
           /\ Logical(CurP) = SubSeq(Logical(Cur), m + 1, length)
           /\ \A j \in DOMAIN Occupied(CurP) :
                 buffer'[Occupied(CurP)[j] + 1] = buffer[Occupied(CurP)[j] + 1]
           /\ Cardinality(ChangedSlots) <= m]_vars

C3_Witness ==
    /\ last.op = "popfront" /\ status = "live" /\ ~tainted
    /\ hindex = 0 /\ length >= 1 /\ Cap(buffer) >= 2

\* C4: commit_back(n) with 0 <= length + n <= C changes only length: length
\* becomes length + n, front and capacity stay, no slot changes other than
\* the |n| slots the caller filled (n > 0) or destructed (n < 0) for this
\* call, and for n < 0 the logical sequence loses exactly its last |n|
\* elements.
C4_CommitBackFrame ==
    [][(last'.op \in {"append", "popback"} /\ status' = "live")
        => LET n == last'.n IN
           /\ length' = length + n
           /\ hindex' = hindex
           /\ Cap(buffer') = Cap(buffer)
           /\ Cardinality(ChangedSlots) <= Abs(n)
           /\ \A i \in ChangedSlots :
                 IF n > 0 THEN buffer'[i] \in nextv..(nextv + n - 1)
                          ELSE buffer'[i] = Uninit
           /\ n < 0 => Logical(CurP) = SubSeq(Logical(Cur), 1, length + n)
           /\ n = 0 => buffer' = buffer]_vars

C4_Witness ==
    /\ last.op = "popback" /\ status = "live" /\ ~tainted
    /\ hindex > 0 /\ length >= 1 /\ hindex + length + Abs(last.n) > Cap(buffer)

\* C5: reserve(k) at length L and capacity C changes the capacity to exactly
\* max(MINCAP, L + k, 2C) if and only if C - L < k; when C - L >= k it
\* leaves capacity, front and length unchanged.
C5_ReserveGrowsIffShort ==
    [][(last'.op = "reserve" /\ status' = "live" /\ Valid(Cur))
        => IF Cap(buffer) - length < last'.n
           THEN Cap(buffer') = Max(Max(MINCAP(siz), length + last'.n), 2 * Cap(buffer))
           ELSE /\ Cap(buffer') = Cap(buffer)
                /\ hindex' = hindex
                /\ length' = length]_vars

\* C6: after reserve(k) returns, capacity - length >= k.
C6_ReserveEnsuresRoom ==
    (last.op = "reserve" /\ status = "live") => Cap(buffer) - length >= last.n

C6_Witness ==
    /\ last.op = "reserve" /\ status = "live" /\ last.n = 3
    /\ length >= 1 /\ Cap(buffer) - length = 3

Range(f) == {f[j] : j \in DOMAIN f}

\* C7: growth is observationally transparent: after every step the occupied
\* views read the same logical sequence as on a buffer given the same
\* appends, prepends and pops but no reserve.
C7_GrowthTransparent ==
    (status = "live" /\ twin # <<>>) => Logical(Cur) = Logical(twin[1])

\* C8: a discarded buffer has destructed every value that was live exactly
\* once (so that every value ever constructed has been destructed exactly
\* once, by the caller's pop or by drop) and has destructed nothing that was
\* not a constructed value; growth destructs nothing.
C8_ExactlyOnceDestruction ==
    [][/\ status' = "dropped" =>
            /\ ~baddrop'
            /\ \A v \in 1..(nextv' - 1) : dcount'[v] = 1
       /\ last'.op = "reserve" => (dcount' = dcount /\ baddrop' = baddrop)]_vars

\* C9: in every state satisfying the bookkeeping invariant the head run, the
\* back run, the back gap and the head gap are pairwise disjoint and cover
\* exactly the slots [0, C); the occupied views are the `length` slots from
\* the front (cyclically), the free views the others; and in a run that never
\* left the invariant the occupied slots hold constructed values and the
\* free slots none.
C9_ViewsPartitionSlots ==
    Valid(Cur) =>
        LET occ == as_ref(Cur)[1] \o as_ref(Cur)[2]
            gap == spare_capacity_mut(Cur)[1] \o spare_capacity_mut(Cur)[2]
            c == Cap(buffer)
        IN  /\ Len(occ) + Len(gap) = c
            /\ Range(occ) \cup Range(gap) = 0..(c - 1)
            /\ Range(occ) = {(hindex + j) % (IF c = 0 THEN 1 ELSE c) : j \in 0..(length - 1)}
            /\ (status = "live" /\ ~tainted) =>
                  /\ \A i \in Range(occ) : IsValue(buffer[i + 1])
                  /\ \A i \in Range(gap) : buffer[i + 1] = Uninit

C9_Witness ==
    /\ status = "live" /\ ~tainted /\ last.op = "append"
    /\ Len(as_ref(Cur)[1]) >= 1 /\ Len(as_ref(Cur)[2]) >= 2
    /\ Len(spare_capacity_mut(Cur)[2]) >= 1

\* C10: appending v1..vn (written into the free views in order, then
\* commit_back(n)) makes the occupied views read the previous logical
\* sequence followed by v1..vn, wrapped or not; with capacity 4, after
\* append [1,2,3,4] and commit_front(-2), appending [5,6] fills slots 0 and 1
\* and gives the views ([3,4],[5,6]) and the split (2,2).
C10_AppendRoundTrip ==
    [][(last'.op = "append" /\ status' = "live")
        => LET n == last'.n IN
           /\ Logical(CurP) = Logical(Cur) \o [j \in 1..n |-> nextv + j - 1]
           /\ (Cap(buffer) = 4 /\ hindex = 2 /\ Logical(Cur) = <<3, 4>> /\ nextv = 5 /\ n = 2)
                => /\ ReadView(buffer', as_ref(CurP)[1]) = <<3, 4>>
                   /\ ReadView(buffer', as_ref(CurP)[2]) = <<5, 6>>
                   /\ lens(CurP) = <<2, 2>>
                   /\ buffer'[1] = 5 /\ buffer'[2] = 6]_vars

C10_Witness ==
    /\ status = "live" /\ last = [op |-> "append", n |-> 2]
    /\ Cap(buffer) = 4 /\ lens(Cur) = <<2, 2>>
    /\ ReadView(buffer, as_ref(Cur)[1]) = <<3, 4>>
    /\ ReadView(buffer, as_ref(Cur)[2]) = <<5, 6>>
    /\ dcount[1] = 1 /\ dcount[2] = 1

BothGapsNonEmpty(s) ==
    Len(spare_capacity_mut(s)[1]) > 0 /\ Len(spare_capacity_mut(s)[2]) > 0
Wrapped(s) == s.length > Cap(s.buffer) - s.hindex

\* C11 (as stated): the two free views are both non-empty only when the
\* layout is wrapped (length > C - front) or the buffer is empty with
\* front # 0.
C11_BothGapsOnlyWrapped ==
    (status = "live" /\ Valid(Cur) /\ BothGapsNonEmpty(Cur))
        => (Wrapped(Cur) \/ (length = 0 /\ hindex # 0))

\* C11 (amended): in a state satisfying the bookkeeping invariant the two
\* free views are both non-empty exactly when the layout is not wrapped,
\* front # 0 and front + length < C (the buffer empty or not); they are then
\* the slots [front + length, C) and [0, front); in the wrapped layout the
\* first free view is empty.
C11_BothGapsIffInside ==
    (status = "live" /\ Valid(Cur)) =>
        LET g == spare_capacity_mut(Cur) IN
        /\ BothGapsNonEmpty(Cur) <=> (hindex > 0 /\ hindex + length < Cap(buffer))
        /\ BothGapsNonEmpty(Cur) =>
              /\ g[1] = [j \in 1..(Cap(buffer) - hindex - length) |-> hindex + length + j - 1]
              /\ g[2] = [j \in 1..hindex |-> j - 1]
        /\ Wrapped(Cur) => Len(g[1]) = 0

C11_Witness ==
    /\ status = "live" /\ last.op = "popfront" /\ length >= 1
    /\ ~Wrapped(Cur) /\ BothGapsNonEmpty(Cur)

\* the slots that a step made part of the occupied region
NewlyOccupied == Range(Occupied(CurP)) \ Range(Occupied(Cur))

\* C12 (as stated): the n slots that commit_back(n), n >= 0, length + n <= C,
\* makes part of the occupied region are slots of the first free view as
\* returned immediately before the call.
C12_AppendedFromFirstView ==
    [][(last'.op = "append" /\ status' = "live" /\ Valid(Cur))
        => NewlyOccupied \subseteq Range(spare_capacity_mut(Cur)[1])]_vars

\* C12 (amended): the n slots that commit_back(n) makes part of the occupied
\* region are n slots that the free views exposed immediately before the
\* call, and every slot occupied before stays occupied; they are slots of
\* the first free view when n is at most its length, and slots of the second
\* free view when the first one is empty (front + length >= C).
C12_AppendedFromFreeViews ==
    [][(last'.op = "append" /\ status' = "live" /\ Valid(Cur))
        => LET g == spare_capacity_mut(Cur) IN
           /\ Cardinality(NewlyOccupied) = last'.n
           /\ Range(Occupied(Cur)) \subseteq Range(Occupied(CurP))
           /\ NewlyOccupied \subseteq (Range(g[1]) \cup Range(g[2]))
           /\ last'.n <= Len(g[1]) => NewlyOccupied \subseteq Range(g[1])
           /\ hindex + length >= Cap(buffer) => NewlyOccupied \subseteq Range(g[2])]_vars

\* an append that took slots of both free views
C12_Witness ==
    /\ status = "live" /\ last.op = "append" /\ last.n >= 2 /\ ~tainted
    /\ lens(Cur)[2] >= 1 /\ lens(Cur)[2] < last.n

\* C13: the capacity never decreases: after each call it is at least what
\* it was before the call, and only reserve changes it.
C13_CapacityNeverDecreases ==
    [][/\ Cap(buffer') >= Cap(buffer)
       /\ Cap(buffer') # Cap(buffer) => last'.op = "reserve"]_vars

\* a reserve that grew a non-empty buffer past its constructed capacity
C13_Witness ==
    /\ status = "live" /\ last.op = "reserve" /\ length >= 1
    /\ siz = 8 /\ Cap(buffer) = 2 * MINCAP(siz)

\* a reserve step that reallocated (a growth always changes the capacity)
Grew == last'.op = "reserve" /\ status' = "live" /\ Cap(buffer') # Cap(buffer)

\* C14: a growth from a state satisfying the bookkeeping invariant, wrapped
\* or not, leaves front = 0, the length unchanged and the split
\* (length, 0); new slot i holds the i-th element of the old logical
\* sequence: the old head run at offsets [0, head_len), the old back run at
\* [head_len, length); the wrapped state ([3,4],[5,6]) becomes the single
\* run [3,4,5,6].
C14_GrowthLinearizes ==
    [][(Grew /\ Valid(Cur))
        => LET hd == ReadView(buffer, as_ref(Cur)[1])
               bk == ReadView(buffer, as_ref(Cur)[2])
           IN  /\ hindex' = 0
               /\ length' = length
               /\ lens(CurP) = <<length, 0>>
               /\ \A i \in 1..Len(hd) : buffer'[i] = hd[i]
               /\ \A i \in 1..Len(bk) : buffer'[Len(hd) + i] = bk[i]
               /\ Len(hd) + Len(bk) = length
               /\ (hd = <<3, 4>> /\ bk = <<5, 6>>)
                    => /\ ReadView(buffer', as_ref(CurP)[1]) = <<3, 4, 5, 6>>
                       /\ as_ref(CurP)[2] = <<>>]_vars

\* the wrapped state ([3,4],[5,6]) after a growth
C14_Witness ==
    /\ status = "live" /\ last.op = "reserve" /\ hindex = 0
    /\ Cap(buffer) = 8 /\ Logical(Cur) = <<3, 4, 5, 6>>
    /\ as_ref(Cur)[2] = <<>> /\ SubSeq(buffer, 1, 4) = <<3, 4, 5, 6>>
    /\ dcount[1] = 1 /\ dcount[2] = 1

\* C15: reserve(k) aborts when length + k overflows usize or when the
\* growth target exceeds the largest allocation; an aborting reserve leaves
\* front, length and capacity as they were; a reserve that returns either
\* left them as they were or completed a growth (front 0, same length,
\* capacity = the target); and it never returns with capacity < length + k.
C15_ReserveFailsCleanly ==
    [][last'.op = "reserve"
        => LET k == last'.n
               target == Max(Max(MINCAP(siz), length + k), 2 * Cap(buffer))
           IN  /\ status' \in {"live", "aborted"}
               /\ (length + k >= USIZE \/ (length + k >= Cap(buffer) /\ target > ISIZE_MAX))
                     => status' = "aborted"
               /\ status' = "aborted" => (buffer' = buffer /\ hindex' = hindex /\ length' = length)
               /\ status' = "live" =>
                     /\ \/ (buffer' = buffer /\ hindex' = hindex /\ length' = length)
                        \/ (hindex' = 0 /\ length' = length /\ Cap(buffer') = target)
                     /\ Cap(buffer') >= length + k]_vars

\* a reserve whose length + k overflowed, on a buffer holding data away from slot 0
C15_Witness ==
    /\ status = "aborted" /\ last = [op |-> "reserve", n |-> USIZE - 1]
    /\ length >= 1 /\ hindex >= 1 /\ ~tainted

(* ======================= properties of the driver ===================== *)
\* C16: in the driver loop, for every choice of partial read and write
\* counts, the bytes the sink received so far are a prefix of the bytes read
\* from the source so far (none lost, duplicated, reordered or taken from an
\* uninitialized slot), the length never exceeds the capacity, and the
\* capacity stays what with_capacity made it.
C16_PipelineIntegrity ==
    /\ Len(drv.sink) <= nextv - 1
    /\ \A i \in 1..Len(drv.sink) : drv.sink[i] = i
    /\ length <= Cap(buffer)
    /\ Cap(buffer) = Max(MINCAP(1), DriverCap)

\* C17: for commit_back(n), n >= 0, length + n <= C, on a buffer satisfying
\* the bookkeeping invariant, the slots that become live are exactly the
\* first n slots of the first free view followed by the second free view as
\* returned before the call, in that order after the slots that were live;
\* so what a caller wrote into the first view and then the second is read
\* back in the order it was written.
C17_AppendTakesFreePrefix ==
    [][(last'.op = "append" /\ status' = "live" /\ Valid(Cur))
        => LET n == last'.n
               taken == FirstN(spare_capacity_mut(Cur)[1] \o spare_capacity_mut(Cur)[2], n)
           IN  /\ as_ref(CurP)[1] \o as_ref(CurP)[2] = (as_ref(Cur)[1] \o as_ref(Cur)[2]) \o taken
               /\ ReadView(buffer', taken) = [j \in 1..n |-> nextv + j - 1]
               /\ SubSeq(Logical(CurP), length + 1, length + n) = ReadView(buffer', taken)]_vars

\* two values appended, the first into the last slot of the first free
\* view, the second into the second free view
C17_Witness ==
    /\ status = "live" /\ last = [op |-> "append", n |-> 2] /\ ~tainted
    /\ lens(Cur)[2] = 1 /\ hindex >= 2 /\ length >= 3
    /\ buffer[Cap(buffer)] = nextv - 2 /\ buffer[1] = nextv - 1

\* C18: reserve is idempotent: a reserve(k) that directly follows a
\* reserve(k) leaves capacity, front and length as the first call left them.
C18_ReserveIdempotent ==
    [][(last.op = "reserve" /\ status = "live" /\ last'.op = "reserve" /\ last'.n = last.n)
        => /\ status' = "live"
           /\ Cap(buffer') = Cap(buffer)
           /\ hindex' = hindex
           /\ length' = length]_vars

\* C19: commit_front(0) is a no-op on every buffer, a capacity-0 buffer
\* created by new() included: it returns and leaves front, length and
\* capacity unchanged.
C19_CommitFrontZeroNoOp ==
    [][(last' = [op |-> "prepend", n |-> 0] /\ Valid(Cur))
        => /\ status' = "live"
           /\ hindex' = hindex
           /\ length' = length
           /\ buffer' = buffer]_vars

====
